---- MODULE Spec2Model ----
(***************************************************************************)
(* Disk usage analyzer (src/disk_analyzer/da.py): walk_directory,          *)
(* filter_paths, should_follow_link, get_file_size and sort_paths over a   *)
(* bounded filesystem snapshot.                                            *)
(*                                                                         *)
(* A path is the sequence of its components below the scan root; the root  *)
(* is << >>.  Every component is a one-character name, so the root-relative *)
(* path string of <<"a","b">> is the character sequence <<"a","/","b">>.    *)
(***************************************************************************)
EXTENDS Integers, Sequences, FiniteSets, TLC

VARIABLES
  fs,              \* filesystem snapshot: real path -> entry
  args,            \* arguments of walk_directory
  pc,              \* position inside walk_directory
  sizes,           \* dict sizes: path -> bytes
  visited_inodes,  \* set visited_inodes
  root_dev,        \* local root_dev
  executor,        \* the ThreadPoolExecutor of this call
  dir_paths,       \* list dir_paths
  file_paths,      \* list file_paths
  futures,         \* per batch: "pending", "finished" or "collected"
  dir_sizes,       \* dict dir_sizes of the parallel directory pass
  walk_order,      \* directories os.walk yields to the loop being run
  idx,             \* number of loop iterations already done
  writes,          \* every assignment to an entry of sizes, in order
  result,          \* "none", "index", "TraversalError", "OSError"
  fsizes,          \* filter_paths: argument sizes
  crit,            \* filter_paths: the other arguments
  filtered,        \* filter_paths: dict filtered
  whitelist_matches, \* filter_paths: set whitelist_matches
  fpc,             \* position inside filter_paths
  call_path,       \* should_follow_link, get_file_size: argument path
  outcome,         \* should_follow_link, get_file_size: how the call ended
  total,           \* get_file_size: the size returned
  calls,           \* number of calls made so far
  path_items,      \* sort_paths: paths.items(), in insertion order
  sort_key,        \* sort_paths: argument sort_key
  reverse,         \* sort_paths: argument reverse
  sorted_paths     \* sort_paths: the list returned

vars == <<fs, args, pc, sizes, visited_inodes, root_dev, executor, dir_paths,
          file_paths, futures, dir_sizes, walk_order, idx, writes, result,
          fsizes, crit, filtered, whitelist_matches, fpc,
          call_path, outcome, total, calls, path_items, sort_key, reverse,
          sorted_paths>>

walkVars == <<fs, args, pc, sizes, visited_inodes, root_dev, executor, dir_paths,
              file_paths, futures, dir_sizes, walk_order, idx, writes, result>>

filterVars == <<fsizes, crit, filtered, whitelist_matches, fpc>>

helperVars == <<call_path, outcome, total, calls, path_items, sort_key, reverse,
                sorted_paths>>

(***************************************************************************)
(* Bounds                                                                  *)
(***************************************************************************)
\* entries below the root in a snapshot
MaxEntries == 3
\* symlinks one path resolution may cross before it fails with ELOOP
MaxLinkHops == 1
\* files per probe batch (batch_size of the source, scaled down so that a
\* small snapshot is split into several batches)
BatchSize == 2

\* names of directory entries, in the order scandir lists them; a directory
\* with k entries holds the first k names
NameSeq == <<"a", "b", "c">>
Names == {NameSeq[i] : i \in DOMAIN NameSeq}

\* max_depth: None or a level
None == -1
MaxDepthChoices == {None, 0, 1}

root == << >>

(***************************************************************************)
(* Generic helpers                                                         *)
(***************************************************************************)
RECURSIVE SumOver(_, _)
SumOver(S, f) ==
  IF S = {} THEN 0
  ELSE LET x == CHOOSE y \in S : TRUE IN f[x] + SumOver(S \ {x}, f)

RECURSIVE Concat(_)
Concat(ss) == IF ss = << >> THEN << >> ELSE Head(ss) \o Concat(Tail(ss))

Reverse(s) == [i \in 1..Len(s) |-> s[Len(s) + 1 - i]]

Range(s) == {s[i] : i \in DOMAIN s}

Count(s, x) == Cardinality({i \in DOMAIN s : s[i] = x})

LastPos(s, x) ==
  LET I == {i \in DOMAIN s : s[i] = x} IN
  IF I = {} THEN 0 ELSE CHOOSE i \in I : \A j \in I : j <= i

IsPrefix(p, q) == Len(p) <= Len(q) /\ SubSeq(q, 1, Len(p)) = p

IsProperPrefix(p, q) == Len(p) < Len(q) /\ SubSeq(q, 1, Len(p)) = p

Parent(p) == SubSeq(p, 1, Len(p) - 1)

Last(p) == p[Len(p)]

(***************************************************************************)
(* Filesystem snapshot                                                     *)
(*                                                                         *)
(* fs maps each real path to its entry: kind ("dir", "file" or "link"),    *)
(* st_blocks, st_dev, for a link its target (a real path, or Dangling),    *)
(* and for a file what a probe of it meets: "ok"; "fail" (stat fails and   *)
(* os.path.exists is false: unreadable, or gone before the probe starts);  *)
(* "race" (os.path.exists is true and the stat that follows fails: gone    *)
(* between the two calls).  The root is a directory that can be listed     *)
(* (probe "ok"), a directory that exists and cannot be listed (probe       *)
(* "noread": os.scandir raises PermissionError), or is missing (kind       *)
(* "none": every stat of it raises FileNotFoundError).                     *)
(***************************************************************************)
Dangling == <<"?">>

NameIndex(n) == CHOOSE i \in DOMAIN NameSeq : NameSeq[i] = n

\* st_blocks of the file at real path p: a distinct allocation per path
RECURSIVE PathCode(_)
PathCode(p) ==
  IF p = << >> THEN 0
  ELSE (Len(NameSeq) + 1) * PathCode(Parent(p)) + NameIndex(Last(p))

DirEntry(p, dev) ==
  [kind |-> "dir", blocks |-> PathCode(p) + 1, dev |-> dev, target |-> Dangling, probe |-> "ok"]

FileEntry(p, dev, probe) ==
  [kind |-> "file", blocks |-> PathCode(p), dev |-> dev, target |-> Dangling, probe |-> probe]

LinkEntry(dev, target) ==
  [kind |-> "link", blocks |-> 0, dev |-> dev, target |-> target, probe |-> "ok"]

RealDirs(f) == {p \in DOMAIN f : f[p].kind = "dir"}

\* the entries that are not a plain directory or a readable file: a mount
\* point, a symlink, a file whose probe fails
Special(f) ==
  {p \in DOMAIN f \ {root} :
     \/ f[p].kind = "link"
     \/ f[p].probe # "ok"
     \/ f[p].dev # f[Parent(p)].dev}

\* the entries one more creation can add at path p below directory d; a
\* snapshot holds at most one special entry
NewEntries(f, d, p) ==
  {DirEntry(p, f[d].dev), FileEntry(p, f[d].dev, "ok")}
  \cup (IF Special(f) = {}
          THEN {DirEntry(p, 1 - f[d].dev)}
               \cup {FileEntry(p, f[d].dev, pr) : pr \in {"fail", "race"}}
               \cup {LinkEntry(f[d].dev, t) : t \in RealDirs(f) \cup {Dangling}}
          ELSE {})

\* the next free name of directory d, or no name when d is full
FreeNames(f, d) ==
  LET used == {i \in DOMAIN NameSeq : Append(d, NameSeq[i]) \in DOMAIN f}
  IN {NameSeq[i] : i \in {j \in DOMAIN NameSeq : j = Cardinality(used) + 1}}

Grow(f) ==
  UNION {{f @@ (Append(x[1], x[2]) :> e) : e \in NewEntries(f, x[1], Append(x[1], x[2]))} :
           x \in {y \in RealDirs(f) \X Names : y[2] \in FreeNames(f, y[1])}}

\* every snapshot with at most n entries below the root
RECURSIVE Snapshots(_)
Snapshots(n) ==
  IF n = 0 THEN {(root :> DirEntry(root, 0))}
  ELSE LET S == Snapshots(n - 1) IN S \cup UNION {Grow(f) : f \in S}

\* the snapshots whose root cannot be read: not listable, or missing
UnreadableRoots ==
  { (root :> [DirEntry(root, 0) EXCEPT !.probe = "noread"]),
    (root :> [DirEntry(root, 0) EXCEPT !.kind = "none"]) }

(***************************************************************************)
(* Path resolution: os.stat, os.lstat, os.path.exists, os.path.islink,     *)
(* DirEntry.is_dir, os.scandir as they answer on the snapshot              *)
(***************************************************************************)
NoEnt == [ok |-> FALSE, real |-> root]

\* follow the components rest from the resolved directory cur
RECURSIVE ResolveFrom(_, _, _, _)
ResolveFrom(f, cur, rest, hops) ==
  IF rest = << >> THEN [ok |-> f[cur].kind # "none", real |-> cur]
  ELSE LET nxt == Append(cur, Head(rest)) IN
    IF f[cur].kind # "dir" \/ nxt \notin DOMAIN f THEN NoEnt
    ELSE IF f[nxt].kind = "link"
      THEN IF hops + 1 > MaxLinkHops \/ f[nxt].target = Dangling THEN NoEnt
           ELSE ResolveFrom(f, f[nxt].target, Tail(rest), hops + 1)
      ELSE ResolveFrom(f, nxt, Tail(rest), hops)

\* os.stat(p): follows every symlink
Stat(f, p) == ResolveFrom(f, root, p, 0)

\* os.lstat(p): follows the symlinks of the directory part only
LStat(f, p) ==
  IF p = root THEN [ok |-> TRUE, real |-> root]
  ELSE LET d == Stat(f, Parent(p)) IN
    IF d.ok /\ f[d.real].kind = "dir" /\ Append(d.real, Last(p)) \in DOMAIN f
      THEN [ok |-> TRUE, real |-> Append(d.real, Last(p))]
      ELSE NoEnt

IsDir(f, p) == LET s == Stat(f, p) IN s.ok /\ f[s.real].kind = "dir"

IsLink(f, p) == LET s == LStat(f, p) IN s.ok /\ f[s.real].kind = "link"

\* os.path.exists(p) at the moment a probe tests it
Exists(f, p) == LET s == Stat(f, p) IN s.ok /\ f[s.real].probe # "fail"

\* os.scandir(p) succeeds
CanScan(f, p) == IsDir(f, p) /\ f[Stat(f, p).real].probe # "noread"

\* the names os.scandir(p) lists, in listing order
ScanDir(f, p) ==
  LET d == Stat(f, p).real
      keep == {i \in DOMAIN NameSeq : Append(d, NameSeq[i]) \in DOMAIN f}
      F[i \in 0..Len(NameSeq)] ==
        IF i = 0 THEN << >>
        ELSE IF i \in keep THEN Append(F[i - 1], NameSeq[i]) ELSE F[i - 1]
  IN F[Len(NameSeq)]

SelectSeqBy(s, S) ==
  LET F[i \in 0..Len(s)] ==
        IF i = 0 THEN << >>
        ELSE IF s[i] \in S THEN Append(F[i - 1], s[i]) ELSE F[i - 1]
  IN F[Len(s)]

\* os.walk splits the listing of top into dirnames and filenames
DirNames(f, top) ==
  SelectSeqBy(ScanDir(f, top), {n \in Names : IsDir(f, Append(top, n))})

FileNames(f, top) ==
  SelectSeqBy(ScanDir(f, top), {n \in Names : ~IsDir(f, Append(top, n))})

(***************************************************************************)
(* Patterns: compile_pattern yields a glob string or a compiled regex.     *)
(* A regex of the model is a literal string, so pattern.search finds it    *)
(* where it occurs as a substring.                                         *)
(***************************************************************************)
Glob(text) == [regex |-> FALSE, text |-> text]

Regex(text) == [regex |-> TRUE, text |-> text]

\* os.path.relpath(path, root) as a string
RECURSIVE RelPath(_)
RelPath(p) ==
  IF p = root THEN <<".">>
  ELSE IF Len(p) = 1 THEN p
  ELSE RelPath(Parent(p)) \o <<"/", Last(p)>>

\* fnmatch.fnmatch(s, pat): the whole of s matches; * matches any run of
\* characters (the separator too), ? any one character
RECURSIVE fnmatch(_, _)
fnmatch(s, pat) ==
  IF pat = << >> THEN s = << >>
  ELSE IF Head(pat) = "*"
    THEN fnmatch(s, Tail(pat)) \/ (s # << >> /\ fnmatch(Tail(s), pat))
  ELSE /\ s # << >>
       /\ (Head(pat) = "?" \/ Head(pat) = Head(s))
       /\ fnmatch(Tail(s), Tail(pat))

\* pattern.search(s) for a literal pattern
search(text, s) ==
  \E i \in 1..(Len(s) + 1) :
    i + Len(text) - 1 <= Len(s) /\ SubSeq(s, i, i + Len(text) - 1) = text

\* match_pattern(path, pattern) with is_absolute left at its default
match_pattern(path, pattern) ==
  IF pattern.regex THEN search(pattern.text, path)
  ELSE IF pattern.text # << >> /\ Head(pattern.text) = "/"
    THEN fnmatch(path, pattern.text)
  ELSE fnmatch(path, pattern.text) \/ fnmatch(path, <<"*", "/">> \o pattern.text)

\* the loop "for pattern in patterns: if match_pattern(rel_path, pattern)"
MatchesAny(p, patterns) ==
  \E i \in DOMAIN patterns : match_pattern(RelPath(p), patterns[i])

(***************************************************************************)
(* os.walk                                                                 *)
(***************************************************************************)
\* os.walk descends into the directory entry at path p
WalksInto(f, p, followlinks) == followlinks \/ ~IsLink(f, p)

\* is_whitelisted of a loop iteration over dirpath
IsWhitelistedDir(a, dirpath) ==
  a.whitelist_patterns # << >> /\ MatchesAny(dirpath, a.whitelist_patterns)

\* "not is_whitelisted and max_depth is not None and current_depth > max_depth"
BeyondDepth(a, dirpath) ==
  /\ ~IsWhitelistedDir(a, dirpath)
  /\ a.max_depth # None
  /\ Len(dirpath) > a.max_depth

\* first pass: os.walk(topdown=True); a directory beyond the depth limit
\* clears dirnames and is left out; returns dir_paths and file_paths
RECURSIVE Enumerate(_, _, _)
Enumerate(f, a, top) ==
  IF ~CanScan(f, top) \/ BeyondDepth(a, top)
    THEN [dirs |-> << >>, files |-> << >>]
  ELSE
    LET dn == DirNames(f, top)
        fn == FileNames(f, top)
        sub == [i \in DOMAIN dn |->
                  IF WalksInto(f, Append(top, dn[i]), a.follow_symlinks)
                    THEN Enumerate(f, a, Append(top, dn[i]))
                    ELSE [dirs |-> << >>, files |-> << >>]]
    IN [dirs  |-> <<top>> \o Concat([i \in DOMAIN sub |-> sub[i].dirs]),
        files |-> [i \in DOMAIN fn |-> Append(top, fn[i])]
                  \o Concat([i \in DOMAIN sub |-> sub[i].files])]

\* the directories os.walk(topdown=False) yields, children before parents
RECURSIVE WalkBottomUp(_, _, _)
WalkBottomUp(f, followlinks, top) ==
  IF ~CanScan(f, top) THEN << >>
  ELSE
    LET dn == DirNames(f, top)
        sub == [i \in DOMAIN dn |->
                  IF WalksInto(f, Append(top, dn[i]), followlinks)
                    THEN WalkBottomUp(f, followlinks, Append(top, dn[i]))
                    ELSE << >>]
    IN Concat(sub) \o <<top>>

(***************************************************************************)
(* Probes                                                                  *)
(***************************************************************************)
\* st_blocks * 512
BlockSize == 512

\* the stat call of a file probe: lstat for a symlink that is not followed,
\* stat otherwise
ProbeStat(f, path, follow_symlinks) ==
  IF IsLink(f, path) /\ ~follow_symlinks THEN LStat(f, path) ELSE Stat(f, path)

\* that call raises OSError
ProbeFails(f, path, follow_symlinks) ==
  LET s == ProbeStat(f, path, follow_symlinks) IN ~s.ok \/ f[s.real].probe # "ok"

ProbeSize(f, path, follow_symlinks) ==
  f[ProbeStat(f, path, follow_symlinks).real].blocks * BlockSize

(***************************************************************************)
(* walk_directory                                                          *)
(***************************************************************************)
EmptyDict == [x \in {} |-> 0]

\* d[k] = v
Put(d, k, v) == [x \in DOMAIN d \cup {k} |-> IF x = k THEN v ELSE d[x]]

\* the locals a loop iteration reads and writes
Locals(s, w) == [sizes |-> s, writes |-> w]

\* sequential branch, the loop over filenames of dirpath: probes each file,
\* adds it to dir_size and records it; a failed probe is logged and skipped
SeqFiles(f, a, dirpath, st) ==
  LET fn == FileNames(f, dirpath)
      F[i \in 0..Len(fn)] ==
        IF i = 0 THEN [sizes |-> st.sizes, writes |-> st.writes, dir_size |-> 0]
        ELSE
          LET file_path == Append(dirpath, fn[i])
              prev == F[i - 1]
              file_size == ProbeSize(f, file_path, a.follow_symlinks)
          IN IF ProbeFails(f, file_path, a.follow_symlinks) THEN prev
             ELSE IF \/ a.max_depth = None
                     \/ Len(dirpath) <= a.max_depth
                     \/ IsWhitelistedDir(a, dirpath)
               THEN [sizes    |-> Put(prev.sizes, file_path, file_size),
                     writes   |-> Append(prev.writes, file_path),
                     dir_size |-> prev.dir_size + file_size]
               ELSE [prev EXCEPT !.dir_size = @ + file_size]
  IN F[Len(fn)]

\* sequential branch, one iteration of the loop over os.walk(topdown=False)
SeqVisit(f, a, dirpath, st) ==
  IF BeyondDepth(a, dirpath) THEN st
  ELSE
    LET r == SeqFiles(f, a, dirpath, st)
        s1 == Put(r.sizes, dirpath, r.dir_size)
        w1 == Append(r.writes, dirpath)
    IN IF dirpath # root /\ Parent(dirpath) \in DOMAIN s1
         THEN Locals([s1 EXCEPT ![Parent(dirpath)] = @ + r.dir_size],
                     Append(w1, Parent(dirpath)))
         ELSE Locals(s1, w1)

\* a slicing slip: every batch after the first starts one path early
file_batches_overlapping(paths) ==
  [k \in 1..((Len(paths) + BatchSize - 1) \div BatchSize) |->
     SubSeq(paths, IF k = 1 THEN 1 ELSE (k - 1) * BatchSize,
            IF k * BatchSize < Len(paths) THEN k * BatchSize ELSE Len(paths))]

\* file_batches: file_paths cut into runs of batch_size
file_batches(paths) ==
  [k \in 1..((Len(paths) + BatchSize - 1) \div BatchSize) |->
     SubSeq(paths, (k - 1) * BatchSize + 1,
            IF k * BatchSize < Len(paths) THEN k * BatchSize ELSE Len(paths))]

\* the submitted lambda raises: a path passed os.path.exists and its stat fails
BatchRaises(f, a, batch) ==
  \E i \in DOMAIN batch :
    Exists(f, batch[i]) /\ ProbeFails(f, batch[i], a.follow_symlinks)

\* the paths of the dict the lambda returns, in order
BatchKeys(f, batch) == SelectSeqBy(batch, {p \in Range(batch) : Exists(f, p)})

\* "batch_results = future.result(); sizes.update(batch_results)", or the
\* except branch when the task raised
CollectBatch(f, a, batch, st) ==
  IF BatchRaises(f, a, batch) THEN st
  ELSE
    LET keys == BatchKeys(f, batch)
        got == Range(keys)
    IN Locals([x \in DOMAIN st.sizes \cup got |->
                 IF x \in got THEN ProbeSize(f, x, a.follow_symlinks) ELSE st.sizes[x]],
              st.writes \o keys)

\* the directory pass without reversed()
DirPassOrderForward(paths) == paths

\* the order of the parallel directory pass: reversed(dir_paths)
DirPassOrder(paths) == Reverse(paths)

\* parallel branch, "Sum up immediate children" of dirpath
ChildSum(f, dirpath, s) ==
  IF ~CanScan(f, dirpath) THEN 0
  ELSE LET kids == {Append(dirpath, n) : n \in Range(ScanDir(f, dirpath))}
       IN SumOver(kids \cap DOMAIN s, s)

(***************************************************************************)
(* filter_paths                                                            *)
(***************************************************************************)
\* first pass: the paths of sizes that match a whitelist pattern
WhitelistMatches(sz, c) ==
  IF c.whitelist_patterns # << >>
    THEN {p \in DOMAIN sz : MatchesAny(p, c.whitelist_patterns)}
    ELSE {}

\* the whitelist/blacklist filters with the blacklist applied in every case
PassesMembershipBlacklistAlways(p, c, wm) ==
  /\ c.whitelist_patterns # << >> => p \in wm
  /\ ~MatchesAny(p, c.blacklist_patterns)

\* "Apply whitelist/blacklist filters": the entry is not skipped
PassesMembership(p, c, wm) ==
  IF c.whitelist_patterns # << >> THEN p \in wm
  ELSE IF c.blacklist_patterns # << >> THEN ~MatchesAny(p, c.blacklist_patterns)
  ELSE TRUE

\* the size filter comparing with <= in place of <
SizeFloorDropsInclusive(size, c, is_whitelisted) ==
  ~c.all_files /\ ~is_whitelisted /\ size <= c.min_size

\* "Apply size filters": the entry is skipped
SizeFloorDrops(size, c, is_whitelisted) ==
  ~c.all_files /\ ~is_whitelisted /\ size < c.min_size

\* the second pass recording 0 in place of the entry's size
SecondPassZeroSizes(sz, c, wm) ==
  LET keep == {p \in DOMAIN sz :
                 PassesMembership(p, c, wm) /\ ~SizeFloorDrops(sz[p], c, p \in wm)}
  IN [p \in keep |-> 0]

\* second pass: the dict filtered before the cut filter
SecondPass(sz, c, wm) ==
  LET keep == {p \in DOMAIN sz :
                 PassesMembership(p, c, wm) /\ ~SizeFloorDrops(sz[p], c, p \in wm)}
  IN [p \in keep |-> sz[p]]

\* the cut filter skipped when all_files is set
CutFilterUnlessAllFiles(flt, c, wm) ==
  IF c.cut_size # None /\ ~c.all_files
    THEN [p \in {q \in DOMAIN flt : flt[q] >= c.cut_size \/ q \in wm} |-> flt[p]]
    ELSE flt

\* "Apply cut filter (except for whitelisted paths)"
CutFilter(flt, c, wm) ==
  IF c.cut_size # None
    THEN [p \in {q \in DOMAIN flt : flt[q] >= c.cut_size \/ q \in wm} |-> flt[p]]
    ELSE flt

filter_paths(sz, c) ==
  LET wm == WhitelistMatches(sz, c)
  IN CutFilter(SecondPass(sz, c, wm), c, wm)

\* the criteria main passes when no filter option is given
NoCriteria ==
  [min_size |-> 0, cut_size |-> None, whitelist_patterns |-> << >>,
   blacklist_patterns |-> << >>, all_files |-> FALSE]

(***************************************************************************)
(* Inputs                                                                  *)
(***************************************************************************)
\* the pattern lists tried as blacklist or whitelist of filter_paths
PatternLists ==
  { << >>,
    <<Glob(<<"b">>)>>,
    <<Glob(<<"/", "a">>)>>,
    <<Glob(<<"/", "a">>), Regex(<<"a">>)>> }

\* the whitelists tried in walk_directory
WalkPatternLists ==
  { << >>,
    <<Glob(<<"/", "a">>), Glob(<<"b">>)>> }

HasLink(f) == \E p \in DOMAIN f : f[p].kind = "link"

HasMount(f) == \E p \in DOMAIN f : f[p].dev # f[root].dev

\* the arguments tried on snapshot f; a flag is varied on the snapshots
\* that hold an entry it is about, one_filesystem also where the stat of
\* the root it asks for can fail
ArgChoices(f) ==
  [max_depth : MaxDepthChoices,
   follow_symlinks : IF HasLink(f) THEN BOOLEAN ELSE {FALSE},
   one_filesystem : IF HasMount(f) \/ f \in UnreadableRoots THEN BOOLEAN ELSE {FALSE},
   whitelist_patterns : WalkPatternLists,
   use_parallel : BOOLEAN]

\* largest entry size, in blocks, of an index handed to filter_paths
MaxSizeBlocks == 2

FilterPaths == {root, <<"a">>, <<"a", "b">>}

FilterIndexes ==
  UNION {[S -> {k * BlockSize : k \in 0..MaxSizeBlocks}] : S \in SUBSET FilterPaths}

CritChoices ==
  [min_size : {0, BlockSize},
   cut_size : {None, BlockSize},
   whitelist_patterns : PatternLists,
   blacklist_patterns : PatternLists,
   all_files : BOOLEAN]

(***************************************************************************)
(* Specification of walk_directory                                         *)
(***************************************************************************)
\* no helper function has been called
HelperIdle ==
  /\ call_path = root
  /\ outcome = "none"
  /\ total = 0
  /\ calls = 0
  /\ path_items = << >>
  /\ sort_key = "size"
  /\ reverse = FALSE
  /\ sorted_paths = << >>

FilterIdle ==
  /\ fsizes = EmptyDict
  /\ crit = NoCriteria
  /\ filtered = EmptyDict
  /\ whitelist_matches = {}
  /\ fpc = "idle"

Init ==
  /\ fs \in Snapshots(MaxEntries) \cup UnreadableRoots
  /\ args \in ArgChoices(fs)
  /\ pc = "start"
  /\ sizes = EmptyDict
  /\ visited_inodes = {}
  /\ root_dev = None
  /\ executor = "none"
  /\ dir_paths = << >>
  /\ file_paths = << >>
  /\ futures = << >>
  /\ dir_sizes = EmptyDict
  /\ walk_order = << >>
  /\ idx = 0
  /\ writes = << >>
  /\ result = "none"
  /\ FilterIdle
  /\ HelperIdle

\* line 415: os.stat(root) is called when one_filesystem is set, and raises
\* OSError when the root is missing
RootStatRaises == args.one_filesystem /\ ~Stat(fs, root).ok

\* lines 413-509: root initialisation, executor creation, first pass; or
\* the OSError of line 415 leaves the call before anything is created
Begin ==
  /\ pc = "start"
  /\ \/ /\ RootStatRaises
        /\ result' = "OSError"
        /\ pc' = "done"
        /\ UNCHANGED <<sizes, writes, root_dev, executor, dir_paths, file_paths,
                       walk_order>>
     \/ /\ ~RootStatRaises
        /\ LET e == Enumerate(fs, args, root) IN
             /\ dir_paths' = e.dirs
             /\ file_paths' = e.files
             /\ walk_order' = IF args.use_parallel
                                THEN DirPassOrder(e.dirs)
                                ELSE WalkBottomUp(fs, args.follow_symlinks, root)
        /\ sizes' = Put(EmptyDict, root, 0)
        /\ writes' = <<root>>
        /\ root_dev' = IF args.one_filesystem THEN fs[root].dev ELSE None
        /\ executor' = IF args.use_parallel THEN "running" ELSE "none"
        /\ pc' = IF args.use_parallel THEN "submit" ELSE "walk"
        /\ UNCHANGED result
  /\ visited_inodes' = {}
  /\ UNCHANGED <<fs, args, futures, dir_sizes, idx, filterVars, helperVars>>

\* lines 516-529: one task per batch is handed to the executor
Submit ==
  /\ pc = "submit"
  /\ futures' = [k \in DOMAIN file_batches(file_paths) |-> "pending"]
  /\ pc' = "probe"
  /\ UNCHANGED <<fs, args, sizes, visited_inodes, root_dev, executor, dir_paths,
                 file_paths, dir_sizes, walk_order, idx, writes, result, filterVars, helperVars>>

\* a worker thread runs the task of batch k to its end
RunBatch(k) ==
  /\ pc = "probe"
  /\ futures[k] = "pending"
  /\ futures' = [futures EXCEPT ![k] = "finished"]
  /\ UNCHANGED <<fs, args, pc, sizes, visited_inodes, root_dev, executor, dir_paths,
                 file_paths, dir_sizes, walk_order, idx, writes, result, filterVars, helperVars>>

\* lines 532-538: as_completed yields a finished future to the main thread
Collect(k) ==
  /\ pc = "probe"
  /\ futures[k] = "finished"
  /\ futures' = [futures EXCEPT ![k] = "collected"]
  /\ LET st == CollectBatch(fs, args, file_batches(file_paths)[k], Locals(sizes, writes)) IN
       /\ sizes' = st.sizes
       /\ writes' = st.writes
  /\ UNCHANGED <<fs, args, pc, visited_inodes, root_dev, executor, dir_paths,
                 file_paths, dir_sizes, walk_order, idx, result, filterVars, helperVars>>

AllCollected == \A k \in DOMAIN futures : futures[k] = "collected"

\* lines 542-562: one iteration of the directory pass, entered once the
\* as_completed loop has consumed every future
DirPass ==
  /\ pc = "probe"
  /\ AllCollected
  /\ idx < Len(walk_order)
  /\ LET dirpath == walk_order[idx + 1]
         dir_size == ChildSum(fs, dirpath, sizes)
         ds == Put(dir_sizes, dirpath, dir_size)
     IN /\ sizes' = Put(sizes, dirpath, dir_size)
        /\ writes' = Append(writes, dirpath)
        /\ dir_sizes' = IF dirpath # root /\ Parent(dirpath) \in DOMAIN ds
                          THEN [ds EXCEPT ![Parent(dirpath)] = @ + dir_size]
                          ELSE ds
  /\ idx' = idx + 1
  /\ UNCHANGED <<fs, args, pc, visited_inodes, root_dev, executor, dir_paths,
                 file_paths, futures, walk_order, result, filterVars, helperVars>>

\* lines 566-614: one iteration of the sequential loop
SeqStep ==
  /\ pc = "walk"
  /\ idx < Len(walk_order)
  /\ LET st == SeqVisit(fs, args, walk_order[idx + 1], Locals(sizes, writes)) IN
       /\ sizes' = st.sizes
       /\ writes' = st.writes
  /\ idx' = idx + 1
  /\ UNCHANGED <<fs, args, pc, visited_inodes, root_dev, executor, dir_paths,
                 file_paths, futures, dir_sizes, walk_order, result, filterVars, helperVars>>

\* the return of sizes without the call of executor.shutdown()
ReturnWithoutShutdown ==
  /\ pc \in {"probe", "walk"}
  /\ AllCollected
  /\ idx = Len(walk_order)
  /\ result' = "index"
  /\ pc' = "done"
  /\ UNCHANGED <<fs, args, sizes, visited_inodes, root_dev, executor, dir_paths,
                 file_paths, futures, dir_sizes, walk_order, idx, writes, filterVars, helperVars>>

\* lines 616-623: executor.shutdown() and return sizes
Return ==
  /\ pc \in {"probe", "walk"}
  /\ AllCollected
  /\ idx = Len(walk_order)
  /\ executor' = IF args.use_parallel THEN "shutdown" ELSE executor
  /\ result' = "index"
  /\ pc' = "done"
  /\ UNCHANGED <<fs, args, sizes, visited_inodes, root_dev, dir_paths, file_paths,
                 futures, dir_sizes, walk_order, idx, writes, filterVars, helperVars>>

Next ==
  \/ Begin
  \/ Submit
  \/ \E k \in DOMAIN futures : RunBatch(k)
  \/ \E k \in DOMAIN futures : Collect(k)
  \/ DirPass
  \/ SeqStep
  \/ Return

Spec == Init /\ [][Next]_vars

(***************************************************************************)
(* Specification of filter_paths                                           *)
(***************************************************************************)
WalkIdle ==
  /\ fs = (root :> DirEntry(root, 0))
  /\ args = [max_depth |-> None, follow_symlinks |-> FALSE, one_filesystem |-> FALSE,
             whitelist_patterns |-> << >>, use_parallel |-> FALSE]
  /\ pc = "idle"
  /\ sizes = EmptyDict
  /\ visited_inodes = {}
  /\ root_dev = None
  /\ executor = "none"
  /\ dir_paths = << >>
  /\ file_paths = << >>
  /\ futures = << >>
  /\ dir_sizes = EmptyDict
  /\ walk_order = << >>
  /\ idx = 0
  /\ writes = << >>
  /\ result = "none"

FilterInit ==
  /\ WalkIdle
  /\ HelperIdle
  /\ fsizes \in FilterIndexes
  /\ crit \in CritChoices
  /\ filtered = EmptyDict
  /\ whitelist_matches = {}
  /\ fpc = "first"

\* lines 652-659: first pass
FirstPass ==
  /\ fpc = "first"
  /\ whitelist_matches' = WhitelistMatches(fsizes, crit)
  /\ fpc' = "second"
  /\ UNCHANGED <<fsizes, crit, filtered, walkVars, helperVars>>

\* lines 661-683: second pass
SecondPassStep ==
  /\ fpc = "second"
  /\ filtered' = SecondPass(fsizes, crit, whitelist_matches)
  /\ fpc' = "cut"
  /\ UNCHANGED <<fsizes, crit, whitelist_matches, walkVars, helperVars>>

\* lines 685-693: cut filter and return
CutStep ==
  /\ fpc = "cut"
  /\ filtered' = CutFilter(filtered, crit, whitelist_matches)
  /\ fpc' = "done"
  /\ UNCHANGED <<fsizes, crit, whitelist_matches, walkVars, helperVars>>

FilterNext == FirstPass \/ SecondPassStep \/ CutStep

FilterSpec == FilterInit /\ [][FilterNext]_vars

(***************************************************************************)
(* should_follow_link                                                      *)
(***************************************************************************)
\* calls of a helper function in one behaviour
MaxCalls == 3

\* (st_dev, st_ino) of the entry at real path p
Inode(f, p) == <<f[p].dev, PathCode(p)>>

\* the value returned or error raised, and visited_inodes after the call
LinkAnswer(out, visited) == [out |-> out, visited |-> visited]

\* the loop check made on the pair of the link's target
should_follow_link_target_pair(f, p, follow_symlinks, one_filesystem, visited) ==
  IF ~follow_symlinks THEN LinkAnswer("Skip", visited)
  ELSE
    LET stat_info == LStat(f, p)
        target_stat == Stat(f, p)
        parent_stat == Stat(f, Parent(p))
    IN IF ~stat_info.ok THEN LinkAnswer("Skip", visited)
       ELSE IF f[stat_info.real].kind # "link" THEN LinkAnswer("Skip", visited)
       ELSE IF ~target_stat.ok THEN LinkAnswer("Skip", visited)
       ELSE IF /\ one_filesystem
               /\ (~parent_stat.ok \/ f[target_stat.real].dev # f[parent_stat.real].dev)
         THEN LinkAnswer("Skip", visited)
       ELSE IF Inode(f, target_stat.real) \in visited
         THEN LinkAnswer("TraversalError", visited)
       ELSE LinkAnswer("Follow", visited \cup {Inode(f, target_stat.real)})

\* lines 277-316: Skip is the return of False, Follow the return of True
should_follow_link(f, p, follow_symlinks, one_filesystem, visited) ==
  IF ~follow_symlinks THEN LinkAnswer("Skip", visited)
  ELSE
    LET stat_info == LStat(f, p)
        target_stat == Stat(f, p)
        parent_stat == Stat(f, Parent(p))
    IN IF ~stat_info.ok THEN LinkAnswer("Skip", visited)
       ELSE IF f[stat_info.real].kind # "link" THEN LinkAnswer("Skip", visited)
       ELSE IF /\ one_filesystem
               /\ \/ ~target_stat.ok
                  \/ ~parent_stat.ok
                  \/ f[target_stat.real].dev # f[parent_stat.real].dev
         THEN LinkAnswer("Skip", visited)
       ELSE IF Inode(f, stat_info.real) \in visited
         THEN LinkAnswer("TraversalError", visited)
       ELSE LinkAnswer("Follow", visited \cup {Inode(f, stat_info.real)})

\* snapshots for should_follow_link: directory a on the root's device or
\* mounted from another one, symlink b, and c absent, a symlink or a file
LinkSnapshots ==
  {(root :> DirEntry(root, 0)) @@ (<<"a">> :> DirEntry(<<"a">>, dev))
     @@ (<<"b">> :> LinkEntry(0, t)) @@ more :
       dev \in {0, 1}, t \in {root, <<"a">>, Dangling},
       more \in {EmptyDict, (<<"c">> :> FileEntry(<<"c">>, 0, "ok"))}
                 \cup {(<<"c">> :> LinkEntry(0, u)) : u \in {root, <<"a">>}}}

\* the paths should_follow_link is called on: entries of the root, and
\* entries seen through the symlink b
LinkPaths == {<<"a">>, <<"b">>, <<"c">>, <<"b", "b">>, <<"b", "c">>}

LinkArgChoices ==
  [max_depth : {None}, follow_symlinks : BOOLEAN, one_filesystem : BOOLEAN,
   whitelist_patterns : {<< >>}, use_parallel : {FALSE}]

\* nothing of walk_directory but the snapshot and the flags is in use
WalkLocalsIdle ==
  /\ pc = "idle"
  /\ sizes = EmptyDict
  /\ root_dev = None
  /\ executor = "none"
  /\ dir_paths = << >>
  /\ file_paths = << >>
  /\ futures = << >>
  /\ dir_sizes = EmptyDict
  /\ walk_order = << >>
  /\ idx = 0
  /\ writes = << >>
  /\ result = "none"

LinkInit ==
  /\ fs \in LinkSnapshots
  /\ args \in LinkArgChoices
  /\ visited_inodes = {}
  /\ WalkLocalsIdle
  /\ FilterIdle
  /\ HelperIdle

\* one call should_follow_link(p, follow_symlinks, one_filesystem, visited_inodes)
ShouldFollowLink(p) ==
  /\ calls < MaxCalls
  /\ LET r == should_follow_link(fs, p, args.follow_symlinks, args.one_filesystem,
                                 visited_inodes)
     IN /\ outcome' = r.out
        /\ visited_inodes' = r.visited
  /\ call_path' = p
  /\ calls' = calls + 1
  /\ UNCHANGED <<fs, args, pc, sizes, root_dev, executor, dir_paths, file_paths,
                 futures, dir_sizes, walk_order, idx, writes, result, filterVars,
                 total, path_items, sort_key, reverse, sorted_paths>>

LinkNext == \E p \in LinkPaths : ShouldFollowLink(p)

LinkSpec == LinkInit /\ [][LinkNext]_vars

(***************************************************************************)
(* get_file_size                                                           *)
(***************************************************************************)
\* stat_fn: os.stat with follow_symlinks, os.lstat without
stat_fn(f, p, follow_symlinks) == IF follow_symlinks THEN Stat(f, p) ELSE LStat(f, p)

\* stat_fn(p) raises OSError
StatFnFails(f, p, follow_symlinks) ==
  LET s == stat_fn(f, p, follow_symlinks)
  IN ~s.ok \/ f[s.real].probe \in {"fail", "race"}

\* stat_fn(p).st_blocks * 512
StatFnSize(f, p, follow_symlinks) ==
  f[stat_fn(f, p, follow_symlinks).real].blocks * BlockSize

\* entry.is_dir(follow_symlinks=follow_symlinks) of the scandir entry at p
EntryIsDir(f, p, follow_symlinks) ==
  LET s == stat_fn(f, p, follow_symlinks) IN s.ok /\ f[s.real].kind = "dir"

\* what a call returns (ok) or that it raised OSError
SizeAnswer(ok, size) == [ok |-> ok, size |-> size]

\* the directory branch adding the own allocation of every entry, with no
\* recursive call on a subdirectory
get_file_size_flat(f, p, follow_symlinks) ==
  IF IsDir(f, p) /\ ~IsLink(f, p)
    THEN
      LET names == IF CanScan(f, p) THEN ScanDir(f, p) ELSE << >>
          F[i \in 0..Len(names)] ==
            IF i = 0 THEN StatFnSize(f, p, follow_symlinks)
            ELSE LET e == Append(p, names[i]) IN
              IF StatFnFails(f, e, follow_symlinks) THEN F[i - 1]
              ELSE F[i - 1] + StatFnSize(f, e, follow_symlinks)
      IN SizeAnswer(TRUE, F[Len(names)])
  ELSE IF StatFnFails(f, p, follow_symlinks) THEN SizeAnswer(FALSE, 0)
  ELSE SizeAnswer(TRUE, StatFnSize(f, p, follow_symlinks))

\* lines 318-362
RECURSIVE get_file_size(_, _, _)
get_file_size(f, p, follow_symlinks) ==
  IF IsDir(f, p) /\ ~IsLink(f, p)
    THEN
      LET names == IF CanScan(f, p) THEN ScanDir(f, p) ELSE << >>
          F[i \in 0..Len(names)] ==
            IF i = 0 THEN StatFnSize(f, p, follow_symlinks)
            ELSE LET e == Append(p, names[i]) IN
              IF EntryIsDir(f, e, follow_symlinks)
                THEN LET r == get_file_size(f, e, follow_symlinks) IN
                       IF r.ok THEN F[i - 1] + r.size ELSE F[i - 1]
              ELSE IF StatFnFails(f, e, follow_symlinks) THEN F[i - 1]
              ELSE F[i - 1] + StatFnSize(f, e, follow_symlinks)
      IN SizeAnswer(TRUE, F[Len(names)])
  ELSE IF StatFnFails(f, p, follow_symlinks) THEN SizeAnswer(FALSE, 0)
  ELSE SizeAnswer(TRUE, StatFnSize(f, p, follow_symlinks))

SizeArgChoices(f) ==
  [max_depth : {None}, follow_symlinks : IF HasLink(f) THEN BOOLEAN ELSE {FALSE},
   one_filesystem : {FALSE}, whitelist_patterns : {<< >>}, use_parallel : {FALSE}]

SizeInit ==
  /\ fs \in Snapshots(MaxEntries)
  /\ args \in SizeArgChoices(fs)
  /\ visited_inodes = {}
  /\ WalkLocalsIdle
  /\ FilterIdle
  /\ HelperIdle

\* one call get_file_size(p, follow_symlinks)
GetFileSize(p) ==
  /\ calls < MaxCalls
  /\ LET r == get_file_size(fs, p, args.follow_symlinks)
     IN /\ outcome' = IF r.ok THEN "returned" ELSE "OSError"
        /\ total' = r.size
  /\ call_path' = p
  /\ calls' = calls + 1
  /\ UNCHANGED <<walkVars, filterVars, path_items, sort_key, reverse, sorted_paths>>

SizeNext == \E p \in DOMAIN fs : GetFileSize(p)

SizeSpec == SizeInit /\ [][SizeNext]_vars

(***************************************************************************)
(* sort_paths                                                              *)
(***************************************************************************)
\* an item of paths.items(): (path, size)
Item(p, size) == <<p, size>>

\* str < str on two paths below the same root: every name is one
\* character, so the strings differ first where the components do, and a
\* path is below every path it is a proper prefix of
RECURSIVE PathLess(_, _)
PathLess(p, q) ==
  IF q = << >> THEN FALSE
  ELSE IF p = << >> THEN TRUE
  ELSE IF Head(p) # Head(q) THEN NameIndex(Head(p)) < NameIndex(Head(q))
  ELSE PathLess(Tail(p), Tail(q))

\* key(x) < key(y) for the key function of the chosen branch
KeyLess(key, x, y) ==
  IF key = "name" THEN PathLess(x[1], y[1]) ELSE x[2] < y[2]

\* x must come before y in the list sorted() builds
SortsBefore(key, rev, x, y) ==
  IF rev THEN KeyLess(key, y, x) ELSE KeyLess(key, x, y)

\* sorted(items, key=..., reverse=...): a stable sort, built by inserting
\* each item behind every item it does not sort before
StableSorted(items, key, rev) ==
  LET Insert(out, x) ==
        LET k == Cardinality({i \in DOMAIN out : ~SortsBefore(key, rev, x, out[i])})
            \* the items x does not sort before form a prefix of out
        IN SubSeq(out, 1, k) \o <<x>> \o SubSeq(out, k + 1, Len(out))
      F[i \in 0..Len(items)] ==
        IF i = 0 THEN << >> ELSE Insert(F[i - 1], items[i])
  IN F[Len(items)]

\* reverse handled by reversing the list sorted in ascending order
sort_paths_reversed_list(items, key, rev) ==
  IF rev THEN Reverse(StableSorted(items, key, FALSE))
  ELSE StableSorted(items, key, FALSE)

\* lines 695-714
sort_paths(items, key, rev) == StableSorted(items, key, rev)

\* the dicts handed to sort_paths, as their items in insertion order
SortInputs ==
  UNION {{s \in [1..n -> FilterPaths \X {k * BlockSize : k \in 0..MaxSizeBlocks}] :
            \A i \in 1..n : \A j \in 1..n : i # j => s[i][1] # s[j][1]} :
           n \in 0..Cardinality(FilterPaths)}

SortInit ==
  /\ WalkIdle
  /\ FilterIdle
  /\ call_path = root
  /\ outcome = "none"
  /\ total = 0
  /\ calls = 0
  /\ path_items \in SortInputs
  /\ sort_key \in {"size", "name"}
  /\ reverse \in BOOLEAN
  /\ sorted_paths = << >>

\* the call sort_paths(paths, sort_key, reverse)
SortPaths ==
  /\ calls = 0
  /\ sorted_paths' = sort_paths(path_items, sort_key, reverse)
  /\ calls' = 1
  /\ UNCHANGED <<walkVars, filterVars, call_path, outcome, total, path_items,
                 sort_key, reverse>>

SortNext == SortPaths

SortSpec == SortInit /\ [][SortNext]_vars

(***************************************************************************)
(* Properties of walk_directory                                            *)
(***************************************************************************)
Done == pc = "done"

\* the index the sequential branch builds on snapshot f with arguments a
SequentialIndex(f, a) ==
  LET order == WalkBottomUp(f, a.follow_symlinks, root)
      F[i \in 0..Len(order)] ==
        IF i = 0 THEN Locals(Put(EmptyDict, root, 0), <<root>>)
        ELSE SeqVisit(f, a, order[i], F[i - 1])
  IN F[Len(order)].sizes

IndexDirs == {p \in DOMAIN sizes : IsDir(fs, p)}

IndexFiles == {p \in DOMAIN sizes : ~IsDir(fs, p)}

IndexChildren(d) == {q \in DOMAIN sizes : q # root /\ Parent(q) = d}

OwnBlocks(p) == fs[Stat(fs, p).real].blocks * BlockSize

StDev(p) == fs[Stat(fs, p).real].dev

\* every file of the snapshot answers its probe the same way at any time
StaticSnapshot == \A p \in DOMAIN fs : fs[p].probe # "race"

\* the directories reached from those of S through entries and symlinks
RECURSIVE ReachableDirs(_, _)
ReachableDirs(f, S) ==
  LET kids == {p \in RealDirs(f) : p # root /\ Parent(p) \in S}
      tgts == {f[p].target : p \in {q \in DOMAIN f : /\ f[q].kind = "link"
                                                     /\ f[q].target # Dangling
                                                     /\ Parent(q) \in S}}
      N == S \cup kids \cup tgts
  IN IF N = S THEN S ELSE ReachableDirs(f, N)

\* following symlinks leads from some directory back into itself
HasSymlinkCycle(f) ==
  \E l \in DOMAIN f :
    /\ f[l].kind = "link"
    /\ f[l].target # Dangling
    /\ Parent(l) \in ReachableDirs(f, {f[l].target})

\* the directories the tree holds for the walker, and the files in them
TreeDirs == Range(WalkBottomUp(fs, args.follow_symlinks, root))

TreeFiles ==
  UNION {{Append(d, n) : n \in Range(FileNames(fs, d))} : d \in TreeDirs}

Whitelisted(p) == MatchesAny(p, args.whitelist_patterns)

WalkCriteria == [NoCriteria EXCEPT !.whitelist_patterns = args.whitelist_patterns]

\* C1: in a completed index every directory's size is its own block
\* allocation plus the sizes of its direct children in the index
C1_DirSizeIsOwnPlusChildren ==
  Done =>
    \A d \in IndexDirs :
      sizes[d] = OwnBlocks(d) + SumOver(IndexChildren(d), sizes)

\* C2: on one snapshot and one set of arguments the parallel run returns
\* the index the sequential run returns
C2_ParallelEqualsSequential ==
  (Done /\ result = "index" /\ args.use_parallel /\ StaticSnapshot) =>
    sizes = SequentialIndex(fs, args)

\* C3: with follow_symlinks set, a snapshot holding a symlink cycle makes
\* walk_directory end with TraversalError and return no index
C3_CycleRaisesTraversalError ==
  (Done /\ args.follow_symlinks /\ HasSymlinkCycle(fs)) =>
    result = "TraversalError"

\* C4: a path deeper than max_depth that matches a whitelist pattern is a
\* key of the index and is kept by filter_paths
C4_WhitelistedDeepPathKept ==
  Done =>
    \A p \in TreeDirs \cup {q \in TreeFiles : ~ProbeFails(fs, q, args.follow_symlinks)} :
      (args.max_depth # None /\ Len(p) > args.max_depth /\ Whitelisted(p)) =>
        /\ p \in DOMAIN sizes
        /\ p \in DOMAIN filter_paths(sizes, WalkCriteria)

\* C5: a file is a key of the index only if it lies within max_depth of the
\* root or is whitelisted; with max_depth = 1 and no whitelist a directory
\* a holding the files a/a and a/b is a key whose size is the sum of the
\* two, and neither file is a key
C5_FilesWithinDepthOnly ==
  Done =>
    /\ \A p \in IndexFiles :
         args.max_depth = None \/ Len(p) <= args.max_depth \/ Whitelisted(p)
    /\ ( /\ args.max_depth = 1
         /\ args.whitelist_patterns = << >>
         /\ DOMAIN fs = {root, <<"a">>, <<"a", "a">>, <<"a", "b">>}
         /\ \A p \in {<<"a", "a">>, <<"a", "b">>} :
              fs[p].kind = "file" /\ fs[p].probe = "ok" )
       => /\ <<"a">> \in DOMAIN sizes
          /\ sizes[<<"a">>] = OwnBlocks(<<"a", "a">>) + OwnBlocks(<<"a", "b">>)
          /\ <<"a", "a">> \notin DOMAIN sizes
          /\ <<"a", "b">> \notin DOMAIN sizes

FailingFiles == {p \in Range(file_paths) : ProbeFails(fs, p, args.follow_symlinks)}

\* C6: when the probe of one file fails the call still returns an index,
\* that file is no key, and every other enumerated file whose probe
\* succeeds is a key with its probed size
C6_OnlyFailedFileOmitted ==
  (Done /\ Cardinality(FailingFiles) = 1) =>
    /\ result = "index"
    /\ \A p \in Range(file_paths) :
         IF p \in FailingFiles THEN p \notin DOMAIN sizes
         ELSE /\ p \in DOMAIN sizes
              /\ sizes[p] = ProbeSize(fs, p, args.follow_symlinks)

\* C7: with one_filesystem set no key of the index lies strictly below a
\* directory whose device differs from the root's
C7_StaysOnRootDevice ==
  (Done /\ args.one_filesystem) =>
    \A p \in DOMAIN sizes :
      \A k \in 1..(Len(p) - 1) : StDev(SubSeq(p, 1, k)) = StDev(root)

\* the number of batch slots that hold path p
ProbeTasks(p) ==
  LET b == file_batches(file_paths)
  IN Cardinality({x \in UNION {{<<k, i>> : i \in DOMAIN b[k]} : k \in DOMAIN b} :
                    b[x[1]][x[2]] = p})

\* C8: a directory's size is written for the last time after the last
\* write of every key below it; the parallel directory pass starts after
\* every probe task has been collected; the loop over directories visits no
\* directory before one that lies below it
C8_DescendantsFinalizedFirst ==
  /\ Done =>
       \A d \in IndexDirs : \A p \in DOMAIN sizes :
         IsProperPrefix(d, p) => LastPos(writes, p) < LastPos(writes, d)
  /\ (args.use_parallel /\ DOMAIN dir_sizes # {}) =>
       /\ DOMAIN futures = DOMAIN file_batches(file_paths)
       /\ AllCollected
  /\ \A i \in DOMAIN walk_order : \A j \in DOMAIN walk_order :
       i < j => ~IsProperPrefix(walk_order[i], walk_order[j])

\* a parallel run has ended whose index holds a file inside a subdirectory
C8_Witness ==
  /\ Done
  /\ args.use_parallel
  /\ futures # << >>
  /\ \E p \in IndexFiles : Len(p) > 1 /\ Parent(p) \in IndexDirs

\* C9 as stated: every key of the index is assigned exactly once, and
\* every file path is probed by exactly one task
C9_EveryKeyWrittenOnce ==
  /\ \A p \in DOMAIN sizes : Count(writes, p) = 1
  /\ \A p \in Range(file_paths) : ProbeTasks(p) = 1

\* C9 amended: every key but the root is assigned exactly once; the root's
\* entry is set to 0 first and, when the walk visits the root, written
\* again before the call ends; every file path is probed by exactly one task
C9_NonRootKeysWrittenOnce ==
  /\ \A p \in DOMAIN sizes \ {root} : Count(writes, p) = 1
  /\ (Done /\ result = "index" /\ CanScan(fs, root)) => Count(writes, root) >= 2
  /\ \A p \in Range(file_paths) : ProbeTasks(p) = 1

\* a parallel run over several batches has ended with every file a key
C9_Witness ==
  /\ Done
  /\ args.use_parallel
  /\ Len(futures) >= 2
  /\ Range(file_paths) \subseteq DOMAIN sizes
  /\ Count(writes, root) = 2

(***************************************************************************)
(* Properties of filter_paths                                              *)
(***************************************************************************)
FilterWhitelisted(p) == MatchesAny(p, crit.whitelist_patterns)

\* the membership stage keeps path p
MembershipKeeps(p) ==
  IF crit.whitelist_patterns # << >> THEN FilterWhitelisted(p)
  ELSE ~MatchesAny(p, crit.blacklist_patterns)

\* filtered is what the size floor leaves: no cut filter has changed it
AfterSizeFloor == fpc = "cut" \/ (fpc = "done" /\ crit.cut_size = None)

\* C10: an entry that passed the membership stage is dropped by the size
\* floor exactly when its size is strictly below min_size and it is neither
\* whitelisted nor covered by all_files; a size equal to min_size is kept
C10_SizeFloorInclusive ==
  AfterSizeFloor =>
    \A p \in DOMAIN fsizes :
      MembershipKeeps(p) =>
        /\ p \notin DOMAIN filtered
             <=> (fsizes[p] < crit.min_size /\ ~FilterWhitelisted(p) /\ ~crit.all_files)
        /\ p \in DOMAIN filtered => filtered[p] = fsizes[p]

\* the size floor has kept an entry of size min_size and dropped a smaller one
C10_Witness ==
  /\ fpc = "cut"
  /\ crit.min_size > 0
  /\ ~crit.all_files
  /\ \E p \in DOMAIN filtered : fsizes[p] = crit.min_size /\ ~FilterWhitelisted(p)
  /\ \E q \in DOMAIN fsizes \ DOMAIN filtered :
       MembershipKeeps(q) /\ fsizes[q] < crit.min_size

FilterBlacklisted(p) == MatchesAny(p, crit.blacklist_patterns)

\* C11: with at least one whitelist pattern the result holds exactly the
\* entries whose root-relative path matches a whitelist pattern, whatever
\* the blacklist is; with no whitelist pattern and some blacklist pattern
\* the membership stage drops the entries matching a blacklist pattern and
\* no other entry
C11_MembershipStage ==
  /\ (fpc = "done" /\ crit.whitelist_patterns # << >>) =>
       /\ DOMAIN filtered = {p \in DOMAIN fsizes : FilterWhitelisted(p)}
       /\ \A bl \in PatternLists :
            filtered = filter_paths(fsizes, [crit EXCEPT !.blacklist_patterns = bl])
  /\ (fpc = "cut" /\ crit.whitelist_patterns = << >> /\ crit.blacklist_patterns # << >>) =>
       \A p \in DOMAIN fsizes :
         /\ FilterBlacklisted(p) => p \notin DOMAIN filtered
         /\ (~FilterBlacklisted(p) /\ (crit.all_files \/ fsizes[p] >= crit.min_size))
              => p \in DOMAIN filtered

\* filter_paths has ended with a whitelist and a blacklist, keeping an entry
\* that matches both and dropping one that matches the blacklist only
C11_Witness ==
  /\ fpc = "done"
  /\ crit.whitelist_patterns # << >>
  /\ crit.blacklist_patterns # << >>
  /\ \E p \in DOMAIN filtered : FilterBlacklisted(p) /\ FilterWhitelisted(p)
  /\ \E q \in DOMAIN fsizes \ DOMAIN filtered : FilterBlacklisted(q)

\* C12: with cut_size configured the result holds no entry that is not
\* whitelisted and has a size below cut_size, all_files set or not, and
\* holds every whitelisted entry; the cut stage drops exactly the
\* non-whitelisted entries below cut_size, and nothing with no cut_size
C12_CutFloor ==
  /\ [](fpc = "done" =>
         /\ crit.cut_size # None =>
              \A p \in DOMAIN filtered :
                filtered[p] >= crit.cut_size \/ FilterWhitelisted(p)
         /\ \A p \in DOMAIN fsizes : FilterWhitelisted(p) => p \in DOMAIN filtered)
  /\ [][fpc = "cut" =>
          /\ crit.cut_size = None => filtered' = filtered
          /\ crit.cut_size # None =>
               /\ DOMAIN filtered' =
                    {p \in DOMAIN filtered :
                       filtered[p] >= crit.cut_size \/ FilterWhitelisted(p)}
               /\ \A p \in DOMAIN filtered' : filtered'[p] = filtered[p]]_vars

\* filter_paths has ended with all_files and cut_size set, having dropped an
\* entry below cut_size that the membership stage had kept
C12_Witness ==
  /\ fpc = "done"
  /\ crit.all_files
  /\ crit.cut_size # None
  /\ DOMAIN filtered # {}
  /\ \E p \in DOMAIN fsizes \ DOMAIN filtered :
       MembershipKeeps(p) /\ fsizes[p] < crit.cut_size

\* C13: filter_paths never changes the index or the criteria it was given,
\* every key of its result is a key of the index with the same size, and
\* its result is a function of the index and the criteria
C13_PureNarrowing ==
  /\ [][fsizes' = fsizes /\ crit' = crit]_vars
  /\ [](\A p \in DOMAIN filtered : p \in DOMAIN fsizes /\ filtered[p] = fsizes[p])
  /\ [](fpc = "done" => filtered = filter_paths(fsizes, crit))

\* filter_paths has ended keeping some entries of positive size and
\* dropping others
C13_Witness ==
  /\ fpc = "done"
  /\ \E p \in DOMAIN filtered : filtered[p] > 0
  /\ DOMAIN fsizes \ DOMAIN filtered # {}

(***************************************************************************)
(* Error ends of walk_directory and its worker pool                        *)
(***************************************************************************)
\* C14: called on a root that cannot be read, walk_directory ends with
\* TraversalError and returns no index, whatever one_filesystem and
\* use_parallel are
C14_UnreadableRootRaises ==
  (Done /\ fs \in UnreadableRoots) => result = "TraversalError"

\* C15: the pool of a parallel run exists only while the call runs: it is
\* created by the call, every task handed to it is run and collected while
\* it is running, and it is shut down when the call has ended, by a return
\* or by a raised error; a sequential run has no pool
C15_PoolShutDownBeforeEnd ==
  /\ Done => executor # "running"
  /\ (Done /\ args.use_parallel /\ result = "index") => executor = "shutdown"
  /\ (\E k \in DOMAIN futures : futures[k] # "collected") => executor = "running"
  /\ ~args.use_parallel => (executor = "none" /\ futures = << >>)

\* a parallel run that handed several batches to its pool has returned
C15_Witness ==
  /\ Done
  /\ args.use_parallel
  /\ result = "index"
  /\ Len(futures) >= 2
  /\ executor = "shutdown"

(***************************************************************************)
(* Properties of should_follow_link                                        *)
(***************************************************************************)
\* the one-filesystem check of the call on p lets the link through
PassesOneFilesystem(p) ==
  args.one_filesystem =>
    /\ Stat(fs, p).ok
    /\ Stat(fs, Parent(p)).ok
    /\ StDev(p) = StDev(Parent(p))

\* C16 as stated: a call on a symlink with follow_symlinks set that passes
\* the one-filesystem check raises TraversalError exactly when the pair of
\* the link's target is in visited_inodes, and otherwise adds that pair and
\* returns Follow; every other call returns Skip; a call that returns Skip
\* or raises leaves visited_inodes as it was
C16_TargetPairGuardsLoop ==
  [][calls' = calls + 1 =>
       LET p == call_path' IN
         IF /\ args.follow_symlinks
            /\ IsLink(fs, p)
            /\ Stat(fs, p).ok
            /\ PassesOneFilesystem(p)
           THEN IF Inode(fs, Stat(fs, p).real) \in visited_inodes
                  THEN outcome' = "TraversalError" /\ visited_inodes' = visited_inodes
                  ELSE /\ outcome' = "Follow"
                       /\ visited_inodes' =
                            visited_inodes \cup {Inode(fs, Stat(fs, p).real)}
           ELSE outcome' = "Skip" /\ visited_inodes' = visited_inodes]_vars

\* C16 amended: the pair tested and added is the one of the link itself
\* (its lstat result), and the target is looked at by the one-filesystem
\* check only, so that a dangling link is followed when one_filesystem is
\* not set
C16_LinkPairGuardsLoop ==
  [][calls' = calls + 1 =>
       LET p == call_path' IN
         IF /\ args.follow_symlinks
            /\ IsLink(fs, p)
            /\ PassesOneFilesystem(p)
           THEN IF Inode(fs, LStat(fs, p).real) \in visited_inodes
                  THEN outcome' = "TraversalError" /\ visited_inodes' = visited_inodes
                  ELSE /\ outcome' = "Follow"
                       /\ visited_inodes' =
                            visited_inodes \cup {Inode(fs, LStat(fs, p).real)}
           ELSE outcome' = "Skip" /\ visited_inodes' = visited_inodes]_vars

\* a call on a symlink whose pair an earlier call had added has raised
\* TraversalError, with the pair of another followed link in the set too
C16_Witness ==
  /\ outcome = "TraversalError"
  /\ IsLink(fs, call_path)
  /\ Inode(fs, LStat(fs, call_path).real) \in visited_inodes
  /\ Cardinality(visited_inodes) = 2

(***************************************************************************)
(* Properties of get_file_size                                             *)
(***************************************************************************)
\* the allocation get_file_size reads for the entry at path p: 0 when its
\* stat fails
OwnAllocation(p) ==
  IF StatFnFails(fs, p, args.follow_symlinks) THEN 0
  ELSE StatFnSize(fs, p, args.follow_symlinks)

\* the directory p itself and every entry below it
Subtree(p) == {q \in DOMAIN fs : IsPrefix(p, q)}

\* C17 as stated: a call that returns, returns the own block allocation of
\* the entry at path, for a directory as for a file or a symlink
C17_OwnAllocationOnly ==
  (calls > 0 /\ outcome = "returned") => total = OwnAllocation(call_path)

\* C17 amended: on a directory the call returns the directory's own
\* allocation plus the own allocation of every entry of its subtree; on a
\* file or a symlink it returns the entry's own allocation, read from the
\* link's target exactly when follow_symlinks is set; it raises OSError
\* exactly when the path is no directory and its stat fails
C17_SubtreeAllocation ==
  calls > 0 =>
    IF fs[call_path].kind = "dir"
      THEN /\ outcome = "returned"
           /\ total = SumOver(Subtree(call_path), [q \in DOMAIN fs |-> OwnAllocation(q)])
      ELSE IF StatFnFails(fs, call_path, args.follow_symlinks)
        THEN outcome = "OSError"
        ELSE /\ outcome = "returned"
             /\ total = fs[IF fs[call_path].kind = "link" /\ args.follow_symlinks
                              THEN fs[call_path].target
                              ELSE call_path].blocks * BlockSize

\* get_file_size has returned, for a directory holding a subdirectory with
\* an entry of its own, more than the directory's own allocation
C17_Witness ==
  /\ calls > 0
  /\ outcome = "returned"
  /\ fs[call_path].kind = "dir"
  /\ \E q \in Subtree(call_path) :
       Len(q) = Len(call_path) + 2 /\ OwnAllocation(q) > 0
  /\ total > OwnAllocation(call_path)

(***************************************************************************)
(* Properties of match_pattern                                             *)
(***************************************************************************)
\* a glob that starts with the path separator
Anchored(pattern) ==
  ~pattern.regex /\ pattern.text # << >> /\ Head(pattern.text) = "/"

\* C18: a glob that starts with the separator matches an entry exactly when
\* the rest of the glob is the entry's whole root-relative path, so the
\* first pass of filter_paths whitelists the entry a for the pattern /a and
\* no entry deeper down; the whitelist test of walk_directory answers for
\* every path as the one of filter_paths does
C18_AnchoredGlobMatchesFullPath ==
  (fpc \in {"second", "cut", "done"} /\ crit.whitelist_patterns # << >>) =>
    \A p \in DOMAIN fsizes :
      /\ p \in whitelist_matches <=>
           \E i \in DOMAIN crit.whitelist_patterns :
             LET pattern == crit.whitelist_patterns[i] IN
               IF Anchored(pattern) THEN RelPath(p) = Tail(pattern.text)
               ELSE match_pattern(RelPath(p), pattern)
      /\ p \in whitelist_matches <=>
           IsWhitelistedDir([whitelist_patterns |-> crit.whitelist_patterns], p)

(***************************************************************************)
(* Properties of sort_paths                                                *)
(***************************************************************************)
\* the position of item x in the sequence s
PosIn(s, x) == CHOOSE i \in DOMAIN s : s[i] = x

\* the list holds every item of the input exactly once
IsPermutation(out, items) ==
  /\ Len(out) = Len(items)
  /\ \A i \in DOMAIN items : Count(out, items[i]) = 1

\* no item of the list sorts before an item placed ahead of it
OrderedByKey(out) ==
  \A i \in DOMAIN out : \A j \in DOMAIN out :
    i < j => ~SortsBefore(sort_key, reverse, out[j], out[i])

SameKey(x, y) == ~KeyLess(sort_key, x, y) /\ ~KeyLess(sort_key, y, x)

\* every insertion order of the items of the input
Reorderings(items) ==
  {s \in [DOMAIN items -> Range(items)] : Range(s) = Range(items)}

\* C19 as stated: the list returned holds every entry once, ordered by the
\* key and reversed with the flag; entries of equal size are ordered by
\* path, and the list is the same for every insertion order of the input
C19_TiesOrderedByPath ==
  calls > 0 =>
    /\ IsPermutation(sorted_paths, path_items)
    /\ OrderedByKey(sorted_paths)
    /\ \A i \in DOMAIN sorted_paths : \A j \in DOMAIN sorted_paths :
         (i < j /\ SameKey(sorted_paths[i], sorted_paths[j])) =>
           IF reverse THEN PathLess(sorted_paths[j][1], sorted_paths[i][1])
           ELSE PathLess(sorted_paths[i][1], sorted_paths[j][1])
    /\ \A s \in Reorderings(path_items) :
         sort_paths(s, sort_key, reverse) = sorted_paths

\* C19 amended: the list returned holds every entry once, ordered by the
\* key and reversed with the flag; entries of equal key keep the order
\* they have in the input, with the flag set too
C19_TiesKeepInsertionOrder ==
  calls > 0 =>
    /\ IsPermutation(sorted_paths, path_items)
    /\ OrderedByKey(sorted_paths)
    /\ \A i \in DOMAIN sorted_paths : \A j \in DOMAIN sorted_paths :
         (i < j /\ SameKey(sorted_paths[i], sorted_paths[j])) =>
           PosIn(path_items, sorted_paths[i]) < PosIn(path_items, sorted_paths[j])

\* three entries have been sorted by size with the reverse flag, two of
\* equal size that the input holds in descending order of path, one larger
C19_Witness ==
  /\ calls > 0
  /\ sort_key = "size"
  /\ reverse
  /\ Len(sorted_paths) = 3
  /\ sorted_paths[1][2] > sorted_paths[2][2]
  /\ sorted_paths[2][2] = sorted_paths[3][2]
  /\ PosIn(path_items, sorted_paths[2]) + 1 = PosIn(path_items, sorted_paths[3])

====
